---- MODULE Spec2Model ----
(***************************************************************************)
(* Model of the transfer-learning training engine of TeachableMachinePro:  *)
(* the useTensorFlow hook (model, training run, history, error), the       *)
(* TeachableMachine page (class list, create-model effect, start gate)     *)
(* and the ClassManager handlers that edit the class list; with them the   *)
(* layer cut of createTransferModel and the useWebcam hook, each in a      *)
(* specification of its own.                                               *)
(*                                                                         *)
(* React state is one variable per useState cell.  An event handler and    *)
(* the effects its state change triggers are one step.  An async function  *)
(* is a process: one step per stretch of code between two awaits, with     *)
(* the values its closure captured kept in the process record.             *)
(*                                                                         *)
(* The page's error effect shows a non-null error as a toast and calls     *)
(* clearError in the render that follows the setError.  The variable error *)
(* therefore holds the message the last step set and the page showed, and  *)
(* NoError when that step set none or set null.                            *)
(***************************************************************************)
EXTENDS Integers, Sequences, FiniteSets, TLC

\* ---------------------------------------------------------------- bounds
MaxClasses == 3      \* classes in the class list at one time
MaxEdits   == 3      \* edits of the class list in a session that trains
MaxSetupEdits == 4   \* edits of the class list before the first training run
MaxRuns    == 2      \* startTraining invocations in flight at one time
MaxEpochs  == 2      \* largest epochs argument
MaxPredictions == 1  \* makePrediction invocations in flight at one time
ProbUnits  == 2      \* a softmax output is a multiple of 1 / ProbUnits
MaxExports == 1      \* exportModel invocations in flight at one time
MaxUploads == 2      \* addSampleToClass invocations in flight at one time
MaxCreates == 1      \* createModel calls made by a client of the hook itself
MaxLayers  == 3      \* layers of a base model handed to createTransferModel
MaxStarts  == 2      \* startWebcam invocations awaiting getUserMedia at one time
MaxStreams == 3      \* camera streams handed out by getUserMedia in a session

\* ------------------------------------------------------ program constants
NumClassColors     == 8

Null == 0

VARIABLES
    isInitialized,     \* useTensorFlow: isInitialized
    initPc,            \* position of initTensorFlow / loadBaseModel
    model,             \* useTensorFlow: model {model, isReady, baseModel}
    trainingStatus,    \* useTensorFlow: trainingStatus
    trainingProgress,  \* useTensorFlow: trainingProgress
    trainingHistory,   \* useTensorFlow: trainingHistory
    error,             \* useTensorFlow: error, as set by the last step
    classes,           \* TeachableMachine: classes
    heads,             \* the tf.LayersModel objects built by createTransferModel
    runs,              \* the startTraining invocations (async processes)
    tensors,           \* live tensors <<run, name>>; run 0: the run has returned
    revoked,           \* sample urls released with URL.revokeObjectURL
    nextSample,        \* number of samples created so far
    edits,             \* number of class-list edits so far
    stamp,             \* Date.now() of the last addNewClass call
    predicting,        \* the makePrediction invocations awaiting prediction.data()
    predicted,         \* what makePrediction returned or threw in the last step
    exporting,         \* the heads whose save() an exportModel invocation awaits
    exported,          \* the outcome of the exportModel call that ended in the last step
    uploading,         \* the addSampleToClass invocations awaiting resizeImage or onload
    creates,           \* number of createModel calls made outside the page's effect
    transfer,          \* createTransferModel: the layers of its base model and its cut
    webcam             \* useWebcam: its state cells, its refs and the camera streams

vars == <<isInitialized, initPc, model, trainingStatus, trainingProgress,
          trainingHistory, error, classes, heads, runs, tensors, revoked,
          nextSample, edits, stamp, predicting, predicted, exporting, exported,
          uploading, creates, transfer, webcam>>

RunIds  == 1..MaxRuns
HeadIds == 1..(MaxRuns + 2)

\* ------------------------------------------------------------- messages
NoError == [msg |-> "", names |-> <<>>]

ErrInit == [msg |-> "Failed to initialize machine learning framework. Please refresh the page.",
            names |-> <<>>]

ErrLoadBase == [msg |-> "Failed to load base model. Please refresh and try again.",
                names |-> <<>>]

ErrNeedClasses == [msg |-> "Need at least 2 classes and a loaded base model",
                   names |-> <<>>]

ErrCreate == [msg |-> "Failed to create training model", names |-> <<>>]

ErrNotReady == [msg |-> "Model not ready or insufficient classes", names |-> <<>>]

ErrEmpty(ns) == [msg |-> "Classes have no training samples", names |-> ns]

ErrTraining == [msg |-> "Training failed. Please check your data and try again.",
                names |-> <<>>]

\* -------------------------------------------------------------- helpers
RECURSIVE Flatten(_)
Flatten(ss) == IF ss = <<>> THEN <<>> ELSE Head(ss) \o Flatten(Tail(ss))

Range(s) == {s[i] : i \in DOMAIN s}

\* ------------------------------------------------------------- the heads
NoHead == [units |-> 0, trained |-> FALSE, isTraining |-> FALSE]

NoRun == [pc |-> "none", head |-> Null, samples |-> <<>>, labels |-> <<>>,
          numClasses |-> 0, epochs |-> 0, loaded |-> 0, epoch |-> 0]

\* positions of a startTraining invocation: "loading" is suspended in the
\* await of an image load, "hung" in the await of a load that never fires
\* onload, "fitting" in the await of trainModel; "none" is no invocation,
\* before the call and after its return.
ActivePcs == {"loading", "fitting"}

HeadsOfRuns(rs) == {rs[r].head : r \in {q \in RunIds : rs[q].pc \in ActivePcs}}

\* A head object nobody can reach any more is garbage: its slot is blanked.
Collect(hs, mdl, rs) ==
    [h \in HeadIds |-> IF h = mdl.model \/ h \in HeadsOfRuns(rs) THEN hs[h] ELSE NoHead]

\* The object identity createTransferModel returns: a slot that is neither
\* the current head nor a head captured by a run in flight.
FreshHead ==
    CHOOSE h \in HeadIds \ ({model.model} \cup HeadsOfRuns(runs)) :
        \A g \in HeadIds \ ({model.model} \cup HeadsOfRuns(runs)) : h <= g

\* ------------------------------------------------------------ class list
Letters == <<"Class A", "Class B", "Class C", "Class D", "Class E">>

UserNames == {"Cat"}

DefaultName(n) == IF n + 1 \in DOMAIN Letters THEN Letters[n + 1] ELSE "Class ?"

InitialClasses ==
    << [id |-> 1, name |-> "Class A", color |-> 0, samples |-> <<>>],
       [id |-> 2, name |-> "Class B", color |-> 1, samples |-> <<>>] >>

ClassIdsOf(cls) == {cls[i].id : i \in DOMAIN cls}

RECURSIVE WithoutId(_, _)
WithoutId(cls, classId) ==
    IF cls = <<>> THEN <<>>
    ELSE IF Head(cls).id = classId THEN WithoutId(Tail(cls), classId)
         ELSE <<Head(cls)>> \o WithoutId(Tail(cls), classId)

RECURSIVE WithoutSample(_, _)
WithoutSample(ss, sampleId) ==
    IF ss = <<>> THEN <<>>
    ELSE IF Head(ss) = sampleId THEN WithoutSample(Tail(ss), sampleId)
         ELSE <<Head(ss)>> \o WithoutSample(Tail(ss), sampleId)

RECURSIVE EmptyNames(_)
EmptyNames(cls) ==
    IF cls = <<>> THEN <<>>
    ELSE IF Head(cls).samples = <<>> THEN <<Head(cls).name>> \o EmptyNames(Tail(cls))
         ELSE EmptyNames(Tail(cls))

\* allImages / allLabels in the order the loading loop visits them
AllSamples(cls) == Flatten([i \in DOMAIN cls |-> cls[i].samples])

\* allLabels pushing the id of the class instead of its index
AllLabels_ById(cls) == Flatten([i \in DOMAIN cls |-> [j \in DOMAIN cls[i].samples |-> cls[i].id]])

AllLabels(cls) == Flatten([i \in DOMAIN cls |-> [j \in DOMAIN cls[i].samples |-> i - 1]])

\* trainingProgress before the first epoch of a session ended (null)
NoProgress == [epoch |-> 0, totalEpochs |-> 0, samplesProcessed |-> 0]

\* ------------------------------------------------- makePrediction results
\* no makePrediction call returned or threw in the last step
NoPrediction == [status |-> "none", msg |-> "", list |-> <<>>, names |-> <<>>]

\* the Error makePrediction throws
Thrown(m) == [status |-> "error", msg |-> m, list |-> <<>>, names |-> <<>>]

ErrPredNotReady == "Model not ready for predictions"

ErrPredFailed == "Failed to make prediction"

\* the list makePrediction returns, with the names of the class list it was
\* called with
Returned(l, ns) == [status |-> "ok", msg |-> "", list |-> l, names |-> ns]

\* the step is no step of a makePrediction invocation
InferenceIdle == predicted' = NoPrediction /\ UNCHANGED predicting

\* ------------------------------------------------------ exportModel results
\* no exportModel call ended in the last step
NoExport == [status |-> "none", head |-> Null]

\* exportModel returned without calling save()
ExportRefused == [status |-> "refused", head |-> Null]

\* save() of head h resolved: the model files were handed to the browser
ExportSaved(h) == [status |-> "saved", head |-> h]

\* save() of head h rejected
ExportFailed(h) == [status |-> "failed", head |-> h]

ErrNoExport == [msg |-> "No trained model to export", names |-> <<>>]

ErrExport == [msg |-> "Failed to export model", names |-> <<>>]

\* the step is no step of an exportModel invocation
ExportIdle == exported' = NoExport /\ UNCHANGED exporting

\* the step is no step of an addSampleToClass invocation
UploadIdle == UNCHANGED uploading

\* the step is no createModel call of a client
ClientIdle == UNCHANGED creates

\* --------------------------------------------------- createTransferModel
\* names of layers of a base model
LayerNames == {"conv_pw_13_relu", "global_average_pooling2d_1", "flatten_1",
               "dense_1", "condensed", "reshape_2"}

\* the substrings createTransferModel looks for
Patterns == {"global_average_pooling", "flatten", "dense"}

\* layer.name.includes(pattern), for the names of LayerNames
NameIncludes ==
    {<<"global_average_pooling2d_1", "global_average_pooling">>,
     <<"flatten_1", "flatten">>,
     <<"dense_1", "dense">>,
     <<"condensed", "dense">>}

\* the layers of MobileNet v1 that matter to the cut: the last convolution
\* block, the pooling layer and the layers behind it
MobileNetLayers == <<"conv_pw_13_relu", "global_average_pooling2d_1", "reshape_2">>

\* no feature extractor was built
NoCut == 0

\* featureExtractor = baseModel
FullModel == MaxLayers + 1

\* the step is no createTransferModel call on a base model of its own
TransferIdle == UNCHANGED transfer

\* ----------------------------------------------------------------- useWebcam
\* The hook after its first render.  streamRef and srcObject hold a stream or
\* Null; live is the set of streams with a track that was not stopped;
\* requesting counts the startWebcam invocations suspended in getUserMedia;
\* metadata: the video element has still to fire loadedmetadata for its
\* srcObject; stopped: the last call made to the hook was stopWebcam or its
\* unmount.
NoWebcam ==
    [isSupported |-> TRUE, checked |-> FALSE, mounted |-> TRUE,
     isActive |-> FALSE, error |-> "", streamRef |-> Null, srcObject |-> Null,
     live |-> {}, streams |-> 0, requesting |-> 0, metadata |-> FALSE,
     stopped |-> FALSE]

\* the step is no step of the webcam hook
WebcamIdle == UNCHANGED webcam

\* ------------------------------------------------------------------ Init
\* the state after the first render, but for the base model of createTransferModel
SessionInit ==
    /\ isInitialized = FALSE
    /\ initPc = "init"
    /\ model = [model |-> Null, isReady |-> FALSE, baseModel |-> Null]
    /\ trainingStatus = "idle"
    /\ trainingProgress = NoProgress
    /\ trainingHistory = <<>>
    /\ error = NoError
    /\ classes = InitialClasses
    /\ heads = [h \in HeadIds |-> NoHead]
    /\ runs = [r \in RunIds |-> NoRun]
    /\ tensors = {}
    /\ revoked = {}
    /\ nextSample = 0
    /\ edits = 0
    /\ stamp = 0
    /\ predicting = <<>>
    /\ predicted = NoPrediction
    /\ exporting = <<>>
    /\ exported = NoExport
    /\ uploading = <<>>
    /\ creates = 0

Init ==
    /\ SessionInit
    /\ transfer = [layers |-> MobileNetLayers, cut |-> NoCut]
    /\ webcam = NoWebcam

\* ----------------------------------------------- useTensorFlow.createModel
\* createModel writing a model record without the base model (no ...prev)
CreateModel_DropsBase(mdl, cls, ok) ==
    IF mdl.baseModel = Null \/ Len(cls) < 2
    THEN /\ error' = ErrNeedClasses
         /\ model' = mdl
         /\ heads' = heads
    ELSE IF ok
    THEN LET h  == FreshHead
             m2 == [model |-> h, isReady |-> FALSE, baseModel |-> Null]
             hs == [heads EXCEPT ![h] = [units |-> Len(cls), trained |-> FALSE,
                                         isTraining |-> FALSE]]
         IN  /\ error' = NoError
             /\ model' = m2
             /\ heads' = Collect(hs, m2, runs)
    ELSE /\ error' = ErrCreate
         /\ model' = mdl
         /\ heads' = heads

\* createModel leaving the ready flag of the model record as it is
CreateModel_KeepsReady(mdl, cls, ok) ==
    IF mdl.baseModel = Null \/ Len(cls) < 2
    THEN /\ error' = ErrNeedClasses
         /\ model' = mdl
         /\ heads' = heads
    ELSE IF ok
    THEN LET h  == FreshHead
             m2 == [mdl EXCEPT !.model = h]
             hs == [heads EXCEPT ![h] = [units |-> Len(cls), trained |-> FALSE,
                                         isTraining |-> FALSE]]
         IN  /\ error' = NoError
             /\ model' = m2
             /\ heads' = Collect(hs, m2, runs)
    ELSE /\ error' = ErrCreate
         /\ model' = mdl
         /\ heads' = heads

\* createModel(cls) called in a render whose model is mdl; ok = FALSE is
\* createTransferModel throwing.  Sets model', heads' and error'.
CreateModel(mdl, cls, ok) ==
    IF mdl.baseModel = Null \/ Len(cls) < 2
    THEN /\ error' = ErrNeedClasses
         /\ model' = mdl
         /\ heads' = heads
    ELSE IF ok
    THEN LET h  == FreshHead
             m2 == [mdl EXCEPT !.model = h, !.isReady = FALSE]
             hs == [heads EXCEPT ![h] = [units |-> Len(cls), trained |-> FALSE,
                                         isTraining |-> FALSE]]
         IN  /\ error' = NoError
             /\ model' = m2
             /\ heads' = Collect(hs, m2, runs)
    ELSE /\ error' = ErrCreate
         /\ model' = mdl
         /\ heads' = heads

\* TeachableMachine: "Create model when classes change" effect, run after a
\* render in which model is mdl and the class list is cls.
CreateModelEffect(mdl, cls) ==
    IF mdl.baseModel # Null /\ Len(cls) >= 2
    THEN \E ok \in BOOLEAN : CreateModel(mdl, cls, ok)
    ELSE /\ model' = mdl
         /\ heads' = heads
         /\ error' = NoError

\* setClasses(cls) followed by the effects of the render it causes
SetClasses(cls) ==
    /\ edits < (IF trainingStatus = "idle" THEN MaxSetupEdits ELSE MaxEdits)
    /\ edits' = edits + 1
    /\ classes' = cls
    /\ CreateModelEffect(model, cls)

\* ------------------------------------------- initTensorFlow, loadBaseModel
\* webgl, cpu: the backend became ready; the CPU backend is tried when
\* WebGL failed.  The load-base-model effect of the page then calls
\* loadBaseModel, which suspends in loadMobileNet.
InitTensorFlow ==
    /\ initPc = "init"
    /\ \E webgl, cpu \in BOOLEAN :
         IF webgl \/ cpu
         THEN /\ isInitialized' = TRUE
              /\ initPc' = "loading"
              /\ error' = NoError
         ELSE /\ isInitialized' = FALSE
              /\ initPc' = "failed"
              /\ error' = ErrInit
    /\ UNCHANGED <<model, trainingStatus, trainingProgress, trainingHistory,
                   classes, heads, runs, tensors, revoked, nextSample, edits, stamp>>
    /\ InferenceIdle
    /\ ExportIdle
    /\ UploadIdle
    /\ ClientIdle
    /\ TransferIdle
    /\ WebcamIdle

\* loadMobileNet settles.  webgl, cpu: MobileNet was loaded on that backend;
\* fallback: createFallbackModel built the convolutional stack, which
\* loadMobileNet calls outside its try blocks, so that its exception is
\* loadMobileNet's.  The render with the base model runs the create-model
\* effect.
LoadBaseModelDone ==
    /\ initPc = "loading"
    /\ \E webgl, cpu, fallback \in BOOLEAN :
         IF webgl \/ cpu \/ fallback
         THEN /\ initPc' = "loaded"
              /\ CreateModelEffect([model EXCEPT !.baseModel = 1], classes)
         ELSE /\ initPc' = "failed"
              /\ error' = ErrLoadBase
              /\ UNCHANGED <<model, heads>>
    /\ UNCHANGED <<isInitialized, trainingStatus, trainingProgress,
                   trainingHistory, classes, runs, tensors, revoked,
                   nextSample, edits, stamp>>
    /\ InferenceIdle
    /\ ExportIdle
    /\ UploadIdle
    /\ ClientIdle
    /\ TransferIdle
    /\ WebcamIdle

\* ------------------------------------------------------------ ClassManager
AddNewClass ==
    /\ Len(classes) < MaxClasses
    /\ \E t \in {stamp, stamp + 1} \ {0} :
         /\ stamp' = t
         /\ SetClasses(Append(classes,
                [id |-> 100 + t, name |-> DefaultName(Len(classes)),
                 color |-> Len(classes) % NumClassColors, samples |-> <<>>]))
    /\ UNCHANGED <<isInitialized, initPc, trainingStatus, trainingProgress,
                   trainingHistory, runs, tensors, revoked, nextSample>>
    /\ InferenceIdle
    /\ ExportIdle
    /\ UploadIdle
    /\ ClientIdle
    /\ TransferIdle
    /\ WebcamIdle

UpdateClassName ==
    /\ \E classId \in ClassIdsOf(classes), newName \in UserNames :
         SetClasses([i \in DOMAIN classes |->
                       IF classes[i].id = classId
                       THEN [classes[i] EXCEPT !.name = newName]
                       ELSE classes[i]])
    /\ UNCHANGED <<isInitialized, initPc, trainingStatus, trainingProgress,
                   trainingHistory, runs, tensors, revoked, nextSample, stamp>>
    /\ InferenceIdle
    /\ ExportIdle
    /\ UploadIdle
    /\ ClientIdle
    /\ TransferIdle
    /\ WebcamIdle

RemoveClass ==
    /\ \E classId \in ClassIdsOf(classes) :
         SetClasses(WithoutId(classes, classId))
    /\ UNCHANGED <<isInitialized, initPc, trainingStatus, trainingProgress,
                   trainingHistory, runs, tensors, revoked, nextSample, stamp>>
    /\ InferenceIdle
    /\ ExportIdle
    /\ UploadIdle
    /\ ClientIdle
    /\ TransferIdle
    /\ WebcamIdle

\* handleWebcamCapture: a captured image becomes a sample of class classId
AddSample ==
    /\ nextSample' = nextSample + 1
    /\ \E classId \in ClassIdsOf(classes) :
         SetClasses([i \in DOMAIN classes |->
                       IF classes[i].id = classId
                       THEN [classes[i] EXCEPT !.samples = Append(@, nextSample + 1)]
                       ELSE classes[i]])
    /\ UNCHANGED <<isInitialized, initPc, trainingStatus, trainingProgress,
                   trainingHistory, runs, tensors, revoked, stamp>>
    /\ InferenceIdle
    /\ ExportIdle
    /\ UploadIdle
    /\ ClientIdle
    /\ TransferIdle
    /\ WebcamIdle

RemoveSample ==
    /\ \E i \in DOMAIN classes : \E sampleId \in Range(classes[i].samples) :
         /\ revoked' = revoked \cup {sampleId}
         /\ SetClasses([j \in DOMAIN classes |->
                          IF classes[j].id = classes[i].id
                          THEN [classes[j] EXCEPT !.samples = WithoutSample(@, sampleId)]
                          ELSE classes[j]])
    /\ UNCHANGED <<isInitialized, initPc, trainingStatus, trainingProgress,
                   trainingHistory, runs, tensors, nextSample, stamp>>
    /\ InferenceIdle
    /\ ExportIdle
    /\ UploadIdle
    /\ ClientIdle
    /\ TransferIdle
    /\ WebcamIdle

\* --------------------------------------------- useTensorFlow.startTraining
\* the slot of a new invocation
FirstFreeRun ==
    CHOOSE r \in RunIds : runs[r].pc = "none" /\ \A q \in RunIds : runs[q].pc = "none" => r <= q

\* the tensors run r still holds when it returns stay allocated for good
Orphan(ts, r) == {t \in ts : t[1] # r} \cup {<<0, t[2]>> : t \in {u \in ts : u[1] = r}}

\* img.src = sample.url: the load will fire onload unless the url was revoked
PcOfLoad(sampleId) == IF sampleId \in revoked THEN "hung" ELSE "loading"

\* A run that waits for ever reads its locals no more
Hung == [NoRun EXCEPT !.pc = "hung"]

\* the accepted call: run r is created and suspends in its first image load
StartRun(cls, epochs) ==
    /\ \E r \in RunIds : runs[r].pc = "none"
    /\ trainingStatus' = "training"
    /\ error' = NoError
    /\ trainingHistory' = <<>>
    /\ runs' = [runs EXCEPT ![FirstFreeRun] =
           [pc |-> PcOfLoad(AllSamples(cls)[1]), head |-> model.model,
            samples |-> AllSamples(cls), labels |-> AllLabels(cls),
            numClasses |-> Len(cls), epochs |-> epochs,
            loaded |-> 0, epoch |-> 0]]

\* startTraining without the test of model.model
StartTraining_NoHeadCheck(cls, epochs) ==
    IF Len(cls) < 2
    THEN /\ error' = ErrNotReady
         /\ UNCHANGED <<trainingStatus, trainingHistory, runs>>
    ELSE IF EmptyNames(cls) # <<>>
    THEN /\ error' = ErrEmpty(EmptyNames(cls))
         /\ UNCHANGED <<trainingStatus, trainingHistory, runs>>
    ELSE StartRun(cls, epochs)

\* startTraining resetting the history before it validates the classes
StartTraining_ResetsFirst(cls, epochs) ==
    IF model.model = Null \/ Len(cls) < 2
    THEN /\ error' = ErrNotReady
         /\ UNCHANGED <<trainingStatus, trainingHistory, runs>>
    ELSE IF EmptyNames(cls) # <<>>
    THEN /\ error' = ErrEmpty(EmptyNames(cls))
         /\ trainingHistory' = <<>>
         /\ UNCHANGED <<trainingStatus, runs>>
    ELSE StartRun(cls, epochs)

\* startTraining asking for at least 1 class instead of 2
StartTraining_OneClassEnough(cls, epochs) ==
    IF model.model = Null \/ Len(cls) < 1
    THEN /\ error' = ErrNotReady
         /\ UNCHANGED <<trainingStatus, trainingHistory, runs>>
    ELSE IF EmptyNames(cls) # <<>>
    THEN /\ error' = ErrEmpty(EmptyNames(cls))
         /\ UNCHANGED <<trainingStatus, trainingHistory, runs>>
    ELSE StartRun(cls, epochs)

\* startTraining refusing to start once a run has failed
StartTraining_RefusesAfterError(cls, epochs) ==
    IF model.model = Null \/ Len(cls) < 2 \/ trainingStatus = "error"
    THEN /\ error' = ErrNotReady
         /\ UNCHANGED <<trainingStatus, trainingHistory, runs>>
    ELSE IF EmptyNames(cls) # <<>>
    THEN /\ error' = ErrEmpty(EmptyNames(cls))
         /\ UNCHANGED <<trainingStatus, trainingHistory, runs>>
    ELSE StartRun(cls, epochs)

\* The call startTraining(cls, epochs), up to its first await or its return.
StartTraining(cls, epochs) ==
    IF model.model = Null \/ Len(cls) < 2
    THEN /\ error' = ErrNotReady
         /\ UNCHANGED <<trainingStatus, trainingHistory, runs>>
    ELSE IF EmptyNames(cls) # <<>>
    THEN /\ error' = ErrEmpty(EmptyNames(cls))
         /\ UNCHANGED <<trainingStatus, trainingHistory, runs>>
    ELSE StartRun(cls, epochs)

\* startTraining taking the ready flag back when it accepts the call
StartTrainingCall_ForcesNotReady ==
    /\ \E epochs \in {MaxEpochs} : StartTraining(classes, epochs)
    /\ model' = [model EXCEPT !.isReady = IF runs' # runs THEN FALSE ELSE @]
    /\ UNCHANGED <<isInitialized, initPc, trainingProgress, classes,
                   heads, tensors, revoked, nextSample, edits, stamp>>
    /\ InferenceIdle
    /\ ExportIdle
    /\ UploadIdle
    /\ ClientIdle
    /\ TransferIdle
    /\ WebcamIdle

\* the hook's startTraining called with the class list of the current render
StartTrainingCall ==
    /\ \E epochs \in {MaxEpochs} : StartTraining(classes, epochs)
    /\ UNCHANGED <<isInitialized, initPc, model, trainingProgress, classes,
                   heads, tensors, revoked, nextSample, edits, stamp>>
    /\ InferenceIdle
    /\ ExportIdle
    /\ UploadIdle
    /\ ClientIdle
    /\ TransferIdle
    /\ WebcamIdle

\* a catch block that also takes the ready flag back
Catch_RevokesReady(r) ==
    /\ error' = ErrTraining
    /\ trainingStatus' = "error"
    /\ model' = [model EXCEPT !.isReady = FALSE]
    /\ runs' = [runs EXCEPT ![r] = NoRun]
    /\ heads' = Collect([heads EXCEPT ![runs[r].head].isTraining =
                            IF runs[r].pc = "fitting" THEN FALSE ELSE @],
                        model', runs')

\* the catch block of startTraining, reached by run r: model is not touched
Catch(r) ==
    /\ error' = ErrTraining
    /\ trainingStatus' = "error"
    /\ model' = model
    /\ runs' = [runs EXCEPT ![r] = NoRun]
    /\ heads' = Collect([heads EXCEPT ![runs[r].head].isTraining =
                            IF runs[r].pc = "fitting" THEN FALSE ELSE @],
                        model, runs')

TensorsAt(r, outcome) ==
    CASE outcome = "stack"  -> {<<r, "images">>}
      [] outcome = "oneHot" -> {<<r, "images">>, <<r, "xs">>, <<r, "labels">>}
      [] OTHER              -> {<<r, "images">>, <<r, "xs">>, <<r, "labels">>, <<r, "ys">>}

\* All images are loaded: build xs and ys and call trainModel, up to the
\* await of model.fit.  outcome names the statement that throws, if any;
\* fit() throws when another fit() on the same head is still going on, and
\* when the width of ys is not the number of output units of the head.
Prepare(r, outcome) ==
    IF /\ outcome = "ok"
       /\ ~heads[runs[r].head].isTraining
       /\ heads[runs[r].head].units = runs[r].numClasses
    THEN /\ tensors' = tensors \cup TensorsAt(r, outcome)
         /\ runs' = [runs EXCEPT ![r].pc = "fitting",
                                 ![r].loaded = Len(runs[r].samples)]
         /\ heads' = [heads EXCEPT ![runs[r].head].isTraining = TRUE]
         /\ error' = NoError
         /\ UNCHANGED <<trainingStatus, model>>
    ELSE /\ tensors' = Orphan(tensors \cup TensorsAt(r, outcome), r)
         /\ Catch(r)

\* onload of the image run r waits for
ImageLoaded(r) ==
    /\ runs[r].pc = "loading"
    /\ IF runs[r].loaded + 1 < Len(runs[r].samples)
       THEN /\ runs' = [runs EXCEPT ![r] =
                          IF PcOfLoad(runs[r].samples[runs[r].loaded + 2]) = "hung"
                          THEN Hung
                          ELSE [@ EXCEPT !.loaded = @ + 1]]
            /\ heads' = Collect(heads, model, runs')
            /\ error' = NoError
            /\ UNCHANGED <<trainingStatus, tensors, model>>
       ELSE \E outcome \in {"ok", "stack", "oneHot", "fit"} : Prepare(r, outcome)
    /\ UNCHANGED <<isInitialized, initPc, trainingProgress,
                   trainingHistory, classes, revoked, nextSample, edits, stamp>>
    /\ InferenceIdle
    /\ ExportIdle
    /\ UploadIdle
    /\ ClientIdle
    /\ TransferIdle
    /\ WebcamIdle

\* the callback passing on the epoch number of fit(), which counts from 0
EpochEnd_ZeroBased(r) ==
    /\ runs[r].pc = "fitting"
    /\ runs[r].epoch < runs[r].epochs
    /\ trainingProgress' = [epoch |-> runs[r].epoch,
                            totalEpochs |-> runs[r].epochs,
                            samplesProcessed |-> Len(runs[r].samples)]
    /\ trainingHistory' = Append(trainingHistory, [epoch |-> runs[r].epoch + 1])
    /\ runs' = [runs EXCEPT ![r].epoch = @ + 1]
    /\ error' = NoError
    /\ UNCHANGED <<isInitialized, initPc, model, trainingStatus, classes,
                   heads, tensors, revoked, nextSample, edits, stamp>>
    /\ InferenceIdle
    /\ ExportIdle
    /\ UploadIdle
    /\ ClientIdle
    /\ TransferIdle
    /\ WebcamIdle

\* the onEpochEnd callback of run r
EpochEnd(r) ==
    /\ runs[r].pc = "fitting"
    /\ runs[r].epoch < runs[r].epochs
    /\ trainingProgress' = [epoch |-> runs[r].epoch + 1,
                            totalEpochs |-> runs[r].epochs,
                            samplesProcessed |-> Len(runs[r].samples)]
    /\ trainingHistory' = Append(trainingHistory, [epoch |-> runs[r].epoch + 1])
    /\ runs' = [runs EXCEPT ![r].epoch = @ + 1]
    /\ error' = NoError
    /\ UNCHANGED <<isInitialized, initPc, model, trainingStatus, classes,
                   heads, tensors, revoked, nextSample, edits, stamp>>
    /\ InferenceIdle
    /\ ExportIdle
    /\ UploadIdle
    /\ ClientIdle
    /\ TransferIdle
    /\ WebcamIdle

\* model.fit rejects while run r is fitting
FitFails(r) ==
    /\ runs[r].pc = "fitting"
    /\ Catch(r)
    /\ tensors' = Orphan(tensors, r)
    /\ UNCHANGED <<isInitialized, initPc, trainingProgress,
                   trainingHistory, classes, revoked, nextSample, edits, stamp>>
    /\ InferenceIdle
    /\ ExportIdle
    /\ UploadIdle
    /\ ClientIdle
    /\ TransferIdle
    /\ WebcamIdle

\* trainModel resolves: dispose xs and ys, mark the model ready
TrainingDone(r) ==
    /\ runs[r].pc = "fitting"
    /\ runs[r].epoch = runs[r].epochs
    /\ tensors' = Orphan(tensors \ {<<r, "xs">>, <<r, "ys">>}, r)
    /\ model' = [model EXCEPT !.isReady = TRUE]
    /\ trainingStatus' = "completed"
    /\ runs' = [runs EXCEPT ![r] = NoRun]
    /\ heads' = Collect([heads EXCEPT ![runs[r].head].isTraining = FALSE,
                                      ![runs[r].head].trained = TRUE],
                        model', runs')
    /\ error' = NoError
    /\ UNCHANGED <<isInitialized, initPc, trainingProgress, trainingHistory,
                   classes, revoked, nextSample, edits, stamp>>
    /\ InferenceIdle
    /\ ExportIdle
    /\ UploadIdle
    /\ ClientIdle
    /\ TransferIdle
    /\ WebcamIdle

\* -------------------------------------------- useTensorFlow.makePrediction
RECURSIVE Sum(_)
Sum(q) == IF q = <<>> THEN 0 ELSE Head(q) + Sum(Tail(q))

\* The outputs a softmax layer of n units can give, in units of 1 / ProbUnits
Softmax(n) == {q \in [1..n -> 0..ProbUnits] : Sum(q) = ProbUnits}

FallbackNames == <<"Class 1", "Class 2", "Class 3", "Class 4", "Class 5", "Class 6">>

\* classes[index]?.name || `Class ${index + 1}`
ClassNameAt(names, index) ==
    IF index + 1 \in DOMAIN names /\ names[index + 1] # ""
    THEN names[index + 1]
    ELSE IF index + 1 \in DOMAIN FallbackNames THEN FallbackNames[index + 1] ELSE "Class ?"

\* the map without the multiplication by 100
Predictions_NoPercent(q, names) ==
    [i \in 1..Len(q) |-> [className  |-> ClassNameAt(names, i - 1),
                          confidence |-> q[i],
                          classIndex |-> i - 1]]

\* Array.from(predictionData).map(...): confidence is a percentage, here in
\* units of 1 / ProbUnits percent
Predictions(q, names) ==
    [i \in 1..Len(q) |-> [className  |-> ClassNameAt(names, i - 1),
                          confidence |-> q[i] * 100,
                          classIndex |-> i - 1]]

\* an insertion that puts an entry before the entries of equal confidence
RECURSIVE InsertByConfidence_TiesFirst(_, _)
InsertByConfidence_TiesFirst(e, sorted) ==
    IF sorted = <<>> THEN <<e>>
    ELSE IF Head(sorted).confidence > e.confidence
         THEN <<Head(sorted)>> \o InsertByConfidence_TiesFirst(e, Tail(sorted))
         ELSE <<e>> \o sorted

\* Array.prototype.sort with (a, b) => b.confidence - a.confidence is a
\* stable sort: an entry goes after the entries that compare equal to it
RECURSIVE InsertByConfidence(_, _)
InsertByConfidence(e, sorted) ==
    IF sorted = <<>> THEN <<e>>
    ELSE IF Head(sorted).confidence >= e.confidence
         THEN <<Head(sorted)>> \o InsertByConfidence(e, Tail(sorted))
         ELSE <<e>> \o sorted

RECURSIVE SortInto(_, _)
SortInto(ps, sorted) ==
    IF ps = <<>> THEN sorted
    ELSE SortInto(Tail(ps), InsertByConfidence(Head(ps), sorted))

SortByConfidence(ps) == SortInto(ps, <<>>)

ClassNames(cls) == [i \in DOMAIN cls |-> cls[i].name]

WithoutIndex(s, i) == SubSeq(s, 1, i - 1) \o SubSeq(s, i + 1, Len(s))

\* makePrediction without the test of model.isReady
MakePrediction_NoReadyCheck(cls) ==
    IF model.model = Null
    THEN /\ predicted' = Thrown(ErrPredNotReady)
         /\ UNCHANGED <<predicting, model>>
    ELSE \E ok \in BOOLEAN :
           IF ok
           THEN /\ Len(predicting) < MaxPredictions
                /\ predicting' = Append(predicting,
                       [units |-> heads[model.model].units, names |-> ClassNames(cls)])
                /\ predicted' = NoPrediction
                /\ model' = model
           ELSE /\ predicted' = Thrown(ErrPredFailed)
                /\ UNCHANGED <<predicting, model>>

\* makePrediction taking the ready flag back when predict throws
MakePrediction_FailureUnreadies(cls) ==
    IF model.model = Null \/ ~model.isReady
    THEN /\ predicted' = Thrown(ErrPredNotReady)
         /\ UNCHANGED <<predicting, model>>
    ELSE \E ok \in BOOLEAN :
           IF ok
           THEN /\ Len(predicting) < MaxPredictions
                /\ predicting' = Append(predicting,
                       [units |-> heads[model.model].units, names |-> ClassNames(cls)])
                /\ predicted' = NoPrediction
                /\ model' = model
           ELSE /\ predicted' = Thrown(ErrPredFailed)
                /\ model' = [model EXCEPT !.isReady = FALSE]
                /\ UNCHANGED predicting

\* The call makePrediction(imageElement, cls), up to the await of
\* prediction.data() or the throw; ok = FALSE is predict throwing.
MakePrediction(cls) ==
    IF model.model = Null \/ ~model.isReady
    THEN /\ predicted' = Thrown(ErrPredNotReady)
         /\ UNCHANGED <<predicting, model>>
    ELSE \E ok \in BOOLEAN :
           IF ok
           THEN /\ Len(predicting) < MaxPredictions
                /\ predicting' = Append(predicting,
                       [units |-> heads[model.model].units, names |-> ClassNames(cls)])
                /\ predicted' = NoPrediction
                /\ model' = model
           ELSE /\ predicted' = Thrown(ErrPredFailed)
                /\ UNCHANGED <<predicting, model>>

\* ------------------------------------------ PredictionDisplay.getClassColor
\* 'bg-gray-400', the color of a prediction no class matches: not one of
\* CLASS_COLORS
GrayColor == NumClassColors

\* classes.find(cls => cls.name === prediction.className): the first match
RECURSIVE GetClassColor(_, _)
GetClassColor(cls, prediction) ==
    IF cls = <<>> THEN GrayColor
    ELSE IF Head(cls).name = prediction.className THEN Head(cls).color
         ELSE GetClassColor(Tail(cls), prediction)

\* the hook's makePrediction called with the class list of the current render
MakePredictionCall ==
    /\ MakePrediction(classes)
    /\ ExportIdle
    /\ UploadIdle
    /\ ClientIdle
    /\ TransferIdle
    /\ WebcamIdle
    /\ UNCHANGED <<isInitialized, initPc, trainingStatus, trainingProgress,
                   trainingHistory, error, classes, heads, runs, tensors,
                   revoked, nextSample, edits, stamp>>

\* prediction.data() of invocation i settles: the list is built, sorted and
\* returned; ok = FALSE is data() rejecting.
PredictionData(i) ==
    /\ i \in DOMAIN predicting
    /\ ExportIdle
    /\ UploadIdle
    /\ ClientIdle
    /\ TransferIdle
    /\ WebcamIdle
    /\ predicting' = WithoutIndex(predicting, i)
    /\ \E ok \in BOOLEAN :
         IF ok
         THEN \E q \in Softmax(predicting[i].units) :
                predicted' = Returned(SortByConfidence(Predictions(q, predicting[i].names)),
                                      predicting[i].names)
         ELSE predicted' = Thrown(ErrPredFailed)
    /\ UNCHANGED <<isInitialized, initPc, model, trainingStatus, trainingProgress,
                   trainingHistory, error, classes, heads, runs, tensors,
                   revoked, nextSample, edits, stamp>>

\* ----------------------------------------------- useTensorFlow.exportModel
\* exportModel without the test of model.isReady
ExportModel_NoReadyCheck ==
    IF model.model = Null
    THEN /\ error' = ErrNoExport
         /\ exported' = ExportRefused
         /\ UNCHANGED exporting
    ELSE /\ Len(exporting) < MaxExports
         /\ exporting' = Append(exporting, model.model)
         /\ exported' = NoExport
         /\ error' = NoError

\* The call exportModel(), up to the await of model.model.save() or the
\* return of the refused call.
ExportModel ==
    IF model.model = Null \/ ~model.isReady
    THEN /\ error' = ErrNoExport
         /\ exported' = ExportRefused
         /\ UNCHANGED exporting
    ELSE /\ Len(exporting) < MaxExports
         /\ exporting' = Append(exporting, model.model)
         /\ exported' = NoExport
         /\ error' = NoError

ExportModelCall ==
    /\ ExportModel
    /\ InferenceIdle
    /\ UploadIdle
    /\ ClientIdle
    /\ TransferIdle
    /\ WebcamIdle
    /\ UNCHANGED <<isInitialized, initPc, model, trainingStatus, trainingProgress,
                   trainingHistory, classes, heads, runs, tensors,
                   revoked, nextSample, edits, stamp>>

\* save() of invocation i settles; ok = FALSE is it rejecting, which the
\* catch block of exportModel turns into an error message.
ExportDone(i) ==
    /\ i \in DOMAIN exporting
    /\ exporting' = WithoutIndex(exporting, i)
    /\ \E ok \in BOOLEAN :
         IF ok
         THEN /\ exported' = ExportSaved(exporting[i])
              /\ error' = NoError
         ELSE /\ exported' = ExportFailed(exporting[i])
              /\ error' = ErrExport
    /\ InferenceIdle
    /\ UploadIdle
    /\ ClientIdle
    /\ TransferIdle
    /\ WebcamIdle
    /\ UNCHANGED <<isInitialized, initPc, model, trainingStatus, trainingProgress,
                   trainingHistory, classes, heads, runs, tensors,
                   revoked, nextSample, edits, stamp>>

\* the layers whose name contains one of the patterns
Matching(ls) == {i \in DOMAIN ls : \E p \in Patterns : <<ls[i], p>> \in NameIncludes}

\* a search that takes the last matching layer
FeatureExtractor_LastMatch(ls, fails) ==
    IF Matching(ls) # {}
    THEN IF fails THEN FullModel
         ELSE CHOOSE i \in Matching(ls) : \A k \in Matching(ls) : i >= k
    ELSE IF Len(ls) < 2 \/ fails THEN FullModel
         ELSE Len(ls) - 1

\* The try block of createTransferModel on a base model with the layers ls:
\* the index of the layer whose output ends the feature extractor, or
\* FullModel.  fails: tf.model(...) throws; with fewer than 2 layers and no
\* match, layers[length - 2] is undefined and reading its output throws.
FeatureExtractor(ls, fails) ==
    IF Matching(ls) # {}
    THEN IF fails THEN FullModel
         ELSE CHOOSE i \in Matching(ls) : \A k \in Matching(ls) : i <= k
    ELSE IF Len(ls) < 2 \/ fails THEN FullModel
         ELSE Len(ls) - 1

CreateTransferModel(fails) ==
    /\ transfer.cut = NoCut
    /\ transfer' = [transfer EXCEPT !.cut = FeatureExtractor(transfer.layers, fails)]
    /\ error' = NoError
    /\ UNCHANGED <<isInitialized, initPc, model, trainingStatus, trainingProgress,
                   trainingHistory, classes, heads, runs, tensors, revoked,
                   nextSample, edits, stamp>>
    /\ InferenceIdle
    /\ ExportIdle
    /\ UploadIdle
    /\ UNCHANGED creates
    /\ WebcamIdle

\* the hook's createModel called by a client of the hook with the first n
\* classes of the class list; ok = FALSE is createTransferModel throwing
CreateModelCall(n, ok) ==
    /\ n <= Len(classes)
    /\ CreateModel(model, SubSeq(classes, 1, n), ok)
    /\ UNCHANGED <<isInitialized, initPc, trainingStatus, trainingProgress,
                   trainingHistory, classes, runs, tensors, revoked,
                   nextSample, edits, stamp>>
    /\ InferenceIdle
    /\ ExportIdle
    /\ UploadIdle
    /\ creates < MaxCreates
    /\ creates' = creates + 1
    /\ TransferIdle
    /\ WebcamIdle

\* ------------------------------------------- ClassManager.addSampleToClass
\* cls with sample sampleId appended to the samples of the classes whose id
\* is classId
WithSample(cls, classId, sampleId) ==
    [i \in DOMAIN cls |->
        IF cls[i].id = classId
        THEN [cls[i] EXCEPT !.samples = Append(@, sampleId)]
        ELSE cls[i]]

\* handleFileUpload(classId, files) with n image files: n invocations of the
\* addSampleToClass of the current render, each suspended in resizeImage with
\* the class list of that render in its closure
HandleFileUpload ==
    /\ \E classId \in ClassIdsOf(classes), n \in 1..(MaxUploads - Len(uploading)) :
         uploading' = uploading \o [k \in 1..n |-> [classes |-> classes,
                                                     classId |-> classId]]
    /\ error' = NoError
    /\ UNCHANGED <<isInitialized, initPc, model, trainingStatus, trainingProgress,
                   trainingHistory, classes, heads, runs, tensors, revoked,
                   nextSample, edits, stamp>>
    /\ InferenceIdle
    /\ ExportIdle
    /\ ClientIdle
    /\ TransferIdle
    /\ WebcamIdle

\* img.onload of invocation i: the new sample goes into the class list the
\* invocation captured, and that list is handed to onClassesChange
SampleLoaded(i) ==
    /\ i \in DOMAIN uploading
    /\ uploading' = WithoutIndex(uploading, i)
    /\ nextSample' = nextSample + 1
    /\ SetClasses(WithSample(uploading[i].classes, uploading[i].classId,
                             nextSample + 1))
    /\ UNCHANGED <<isInitialized, initPc, trainingStatus, trainingProgress,
                   trainingHistory, runs, tensors, revoked, stamp>>
    /\ InferenceIdle
    /\ ExportIdle
    /\ ClientIdle
    /\ TransferIdle
    /\ WebcamIdle

\* resizeImage of invocation i rejects (the catch block logs it), or the
\* image never fires onload, or the canvas has no 2d context: no sample
UploadFails(i) ==
    /\ i \in DOMAIN uploading
    /\ uploading' = WithoutIndex(uploading, i)
    /\ error' = NoError
    /\ UNCHANGED <<isInitialized, initPc, model, trainingStatus, trainingProgress,
                   trainingHistory, classes, heads, runs, tensors, revoked,
                   nextSample, edits, stamp>>
    /\ InferenceIdle
    /\ ExportIdle
    /\ ClientIdle
    /\ TransferIdle
    /\ WebcamIdle

\* ----------------------------------------- TeachableMachine.handleExportModel
\* The promise of an exportModel call that ended with outcome e rejects:
\* never, for exportModel returns when it refuses and catches the rejection
\* of save() itself.
ExportRejects(e) == FALSE

\* the toast handleExportModel shows when the exportModel call it awaits ends
ExportToast(e) ==
    IF e = NoExport THEN "none"
    ELSE IF ExportRejects(e) THEN "Export Failed"
    ELSE "Export Successful"

Next ==
    \/ InitTensorFlow
    \/ LoadBaseModelDone
    \/ AddNewClass
    \/ UpdateClassName
    \/ RemoveClass
    \/ AddSample
    \/ RemoveSample
    \/ StartTrainingCall
    \/ \E r \in RunIds : ImageLoaded(r)
    \/ \E r \in RunIds : EpochEnd(r)
    \/ \E r \in RunIds : FitFails(r)
    \/ \E r \in RunIds : TrainingDone(r)

Spec == Init /\ [][Next]_vars

\* The session with inference: makePrediction reads model and the class list
\* and writes neither, so the steps of Next are the same with and without it.
PredictNext ==
    \/ Next
    \/ MakePredictionCall
    \/ \E i \in 1..MaxPredictions : PredictionData(i)

PredictSpec == Init /\ [][PredictNext]_vars

\* The session with export: exportModel reads model and writes only error.
ExportNext ==
    \/ Next
    \/ ExportModelCall
    \/ \E i \in 1..MaxExports : ExportDone(i)

ExportSpec == Init /\ [][ExportNext]_vars

\* The session of a client of the hook that collects samples, trains and
\* also calls createModel itself
CreateNext ==
    \/ InitTensorFlow
    \/ LoadBaseModelDone
    \/ AddSample
    \/ StartTrainingCall
    \/ \E r \in RunIds : ImageLoaded(r)
    \/ \E r \in RunIds : EpochEnd(r)
    \/ \E r \in RunIds : FitFails(r)
    \/ \E r \in RunIds : TrainingDone(r)
    \/ \E n \in 0..MaxClasses, ok \in BOOLEAN : CreateModelCall(n, ok)

CreateSpec == Init /\ [][CreateNext]_vars

\* createTransferModel applied once to a base model of up to MaxLayers layers
TransferInit ==
    /\ SessionInit
    /\ \E n \in 1..MaxLayers : \E ls \in [1..n -> LayerNames] :
          transfer = [layers |-> ls, cut |-> NoCut]
    /\ webcam = NoWebcam

TransferNext == \E fails \in BOOLEAN : CreateTransferModel(fails)

TransferSpec == TransferInit /\ [][TransferNext]_vars

\* the steps of the webcam hook leave the rest of the page as it is
PageIdle ==
    /\ UNCHANGED <<isInitialized, initPc, model, trainingStatus, trainingProgress,
                   trainingHistory, classes, heads, runs, tensors, revoked,
                   nextSample, edits, stamp>>
    /\ error' = NoError
    /\ InferenceIdle
    /\ ExportIdle
    /\ UploadIdle
    /\ ClientIdle
    /\ TransferIdle

\* the mount effect: is getUserMedia there?
CheckSupport ==
    /\ ~webcam.checked
    /\ \E supported \in BOOLEAN :
         webcam' = [webcam EXCEPT !.checked = TRUE,
                                  !.isSupported = supported,
                                  !.error = IF supported THEN @ ELSE "not supported"]
    /\ PageIdle

\* startWebcam(), up to the await of getUserMedia or the early return
StartWebcam ==
    /\ webcam.checked
    /\ webcam.mounted
    /\ IF ~webcam.isSupported
       THEN webcam' = [webcam EXCEPT !.error = "not supported", !.stopped = FALSE]
       ELSE /\ webcam.requesting < MaxStarts
            /\ webcam.streams + webcam.requesting < MaxStreams
            /\ webcam' = [webcam EXCEPT !.error = "", !.requesting = @ + 1,
                                        !.stopped = FALSE]
    /\ PageIdle

\* getUserMedia resolves with a new stream: it goes into streamRef and, when
\* the video element is there, into its srcObject
CameraGranted ==
    /\ webcam.requesting > 0
    /\ LET stream == webcam.streams + 1
           w == [webcam EXCEPT !.requesting = @ - 1, !.streams = stream,
                               !.live = @ \cup {stream}, !.streamRef = stream]
       IN  webcam' = IF webcam.mounted
                     THEN [w EXCEPT !.srcObject = stream, !.metadata = TRUE]
                     ELSE [w EXCEPT !.error = "video element missing"]
    /\ PageIdle

\* getUserMedia rejects: the catch block sets an error
CameraDenied ==
    /\ webcam.requesting > 0
    /\ webcam' = [webcam EXCEPT !.requesting = @ - 1, !.error = "camera error"]
    /\ PageIdle

\* onloadedmetadata: play() and, when it resolves, setIsActive(true)
MetadataLoaded ==
    /\ webcam.metadata
    /\ webcam.srcObject # Null
    /\ webcam.mounted
    /\ \E played \in BOOLEAN :
         webcam' = IF played
                   THEN [webcam EXCEPT !.metadata = FALSE, !.isActive = TRUE]
                   ELSE [webcam EXCEPT !.metadata = FALSE, !.error = "play error"]
    /\ PageIdle

\* the body of stopWebcam
Stopped(w) ==
    [w EXCEPT !.live = IF w.streamRef # Null THEN @ \ {w.streamRef} ELSE @,
              !.streamRef = Null,
              !.srcObject = IF w.mounted THEN Null ELSE @,
              !.metadata = IF w.mounted THEN FALSE ELSE @,
              !.isActive = FALSE,
              !.stopped = TRUE]

StopWebcam ==
    /\ webcam.checked
    /\ webcam.mounted
    /\ webcam' = Stopped(webcam)
    /\ PageIdle

\* the cleanup of the unmount effect calls stopWebcam; the video element goes
Unmount ==
    /\ webcam.checked
    /\ webcam.mounted
    /\ webcam' = [Stopped(webcam) EXCEPT !.mounted = FALSE]
    /\ PageIdle

WebcamNext ==
    \/ CheckSupport
    \/ StartWebcam
    \/ CameraGranted
    \/ CameraDenied
    \/ MetadataLoaded
    \/ StopWebcam
    \/ Unmount

WebcamSpec == Init /\ [][WebcamNext]_vars

\* The session of class-list editing with file uploads, before the first
\* startTraining call: a training run reads the class list it was called
\* with and writes none.
UploadNext ==
    \/ InitTensorFlow
    \/ LoadBaseModelDone
    \/ AddNewClass
    \/ UpdateClassName
    \/ RemoveClass
    \/ AddSample
    \/ RemoveSample
    \/ HandleFileUpload
    \/ \E i \in 1..MaxUploads : SampleLoaded(i)
    \/ \E i \in 1..MaxUploads : UploadFails(i)

UploadSpec == Init /\ [][UploadNext]_vars

\* The browser's event loop delivers the onload of an image that can load,
\* and a fit() that does not reject runs its epochs and resolves.
RunFairness ==
    \A r \in RunIds :
        /\ WF_vars(ImageLoaded(r))
        /\ WF_vars(EpochEnd(r))
        /\ WF_vars(TrainingDone(r))

\* The awaits of initTensorFlow and of loadMobileNet settle.
LoadFairness == WF_vars(InitTensorFlow) /\ WF_vars(LoadBaseModelDone)

FairSpec == Spec /\ RunFairness /\ LoadFairness

TypeOK ==
    /\ isInitialized \in BOOLEAN
    /\ model.model \in HeadIds \cup {Null}
    /\ model.isReady \in BOOLEAN
    /\ trainingStatus \in {"idle", "training", "completed", "error"}
    /\ Len(classes) <= MaxClasses
    /\ \A r \in RunIds : runs[r].pc \in {"none", "loading", "hung", "fitting"}
    /\ Len(predicting) <= MaxPredictions
    /\ predicted.status \in {"none", "ok", "error"}
    /\ Len(exporting) <= MaxExports
    /\ exported.status \in {"none", "refused", "saved", "failed"}
    /\ Len(uploading) <= MaxUploads
    /\ creates \in 0..MaxCreates
    /\ transfer.cut \in 0..FullModel
    /\ webcam.live \subseteq 1..MaxStreams
    /\ webcam.requesting \in 0..MaxStarts

\* ------------------------------------------------- steps of a training run
\* run r leaves the code between its first await and its return
RunStops(r) == runs[r].pc \in ActivePcs /\ runs'[r].pc \notin ActivePcs

\* run r returns through its catch block
RunFails(r) == RunStops(r) /\ runs'[r].pc = "none" /\ trainingStatus' = "error"

EpochRecords(n) == [i \in 1..n |-> [epoch |-> i]]

\* =================================================================== claims

\* C1: a startTraining call made while trainingStatus = 'training' is
\* rejected: it starts no run and leaves the status, the progress and the
\* history of the run in flight unchanged.
C1_StartWhileTrainingRejected ==
    [][(trainingStatus = "training" /\ StartTrainingCall)
          => UNCHANGED <<runs, trainingStatus, trainingProgress, trainingHistory>>]_vars

\* C2: model.isReady is true only if the head held in model.model is a head
\* on which a training run completed all its epochs.
C2_ReadyOnlyTrainedHead ==
    model.isReady => (model.model # Null /\ heads[model.model].trained)

\* C3: every change of the number of classes leaves model.isReady false, and
\* a run started for another number of classes (so before the change) does
\* not make the model ready when it completes.
C3_CountChangeInvalidates ==
    [][/\ Len(classes') # Len(classes) => ~model'.isReady
       /\ \A r \in RunIds :
            (TrainingDone(r) /\ runs[r].numClasses # Len(classes)) => ~model'.isReady]_vars

\* C4: a run is started (trainingStatus becomes 'training') only with the
\* base model loaded, a head in model.model, at least 2 classes in the list
\* passed to startTraining and at least one sample in each of them.
C4_StartPreconditions ==
    \A r \in RunIds :
        runs[r].pc \in ActivePcs =>
            /\ model.baseModel # Null
            /\ runs[r].head # Null
            /\ runs[r].numClasses >= 2
            /\ Range(runs[r].labels) = 0..(runs[r].numClasses - 1)
            /\ Len(runs[r].samples) = Len(runs[r].labels)

C4_Witness ==
    /\ trainingStatus = "training"
    /\ \E r \in RunIds : runs[r].pc = "loading" /\ runs[r].numClasses = 2

\* C5 as stated: startTraining with a class list that has an empty class
\* fails with the error naming the empty classes, starts no run and leaves
\* status, progress and history unchanged.
C5_EmptyClassNamed ==
    [][(StartTrainingCall /\ EmptyNames(classes) # <<>>)
          => /\ error' = ErrEmpty(EmptyNames(classes))
             /\ UNCHANGED <<runs, trainingStatus, trainingProgress, trainingHistory>>]_vars

\* C5 amended: such a call fails before any epoch runs, with the error
\* naming the empty classes when a head exists and the list has at least 2
\* classes, and with the "model not ready or insufficient classes" error
\* otherwise; it starts no run and leaves status, progress and history
\* unchanged.
C5_EmptyClassRejected ==
    [][(StartTrainingCall /\ EmptyNames(classes) # <<>>)
          => /\ error' = IF model.model = Null \/ Len(classes) < 2
                         THEN ErrNotReady
                         ELSE ErrEmpty(EmptyNames(classes))
             /\ UNCHANGED <<runs, trainingStatus, trainingProgress, trainingHistory>>]_vars

C5_Witness ==
    /\ Len(classes) = 3
    /\ error = ErrEmpty(EmptyNames(classes))
    /\ Len(error.names) = 1

\* C6: startTraining with fewer than 2 classes fails with an error,
\* allocates no tensor and leaves trainingStatus, trainingProgress,
\* trainingHistory and model unchanged.
C6_TooFewClassesRejected ==
    [][(StartTrainingCall /\ Len(classes) < 2)
          => /\ error' = ErrNotReady
             /\ UNCHANGED <<tensors, runs, trainingStatus, trainingProgress,
                            trainingHistory, model>>]_vars

C6_Witness ==
    /\ Len(classes) < 2
    /\ error = ErrNotReady
    /\ model.model # Null

\* C7: a run started with E epochs that completes leaves a history of
\* exactly the records of epochs 1..E in order, trainingStatus 'completed'
\* and model.isReady true.
C7_CompletedRunHistory ==
    [][\A r \in RunIds :
          TrainingDone(r) =>
             /\ trainingHistory' = EpochRecords(runs[r].epochs)
             /\ trainingStatus' = "completed"
             /\ model'.isReady]_vars

\* C8: while a run is running the history is append-only: a step that keeps
\* trainingStatus = 'training' leaves it alone or appends one record.
C8_HistoryAppendOnly ==
    [][(trainingStatus = "training" /\ trainingStatus' = "training")
          => \/ trainingHistory' = trainingHistory
             \/ /\ Len(trainingHistory') = Len(trainingHistory) + 1
                /\ SubSeq(trainingHistory', 1, Len(trainingHistory)) = trainingHistory]_vars

\* C9: a run that stops without completing has failed: trainingStatus is
\* 'error' and the training error message is set.
C9_FailureReported ==
    [][\A r \in RunIds :
          RunStops(r) =>
             \/ TrainingDone(r)
             \/ trainingStatus' = "error" /\ error' = ErrTraining]_vars

\* C10: the step in which a run fails leaves model.isReady (and the head)
\* as it was: a failed retrain does not revoke a ready model.
C10_FailureKeepsReady ==
    [][\A r \in RunIds : RunFails(r) => model' = model]_vars

C10_Witness ==
    /\ trainingStatus = "error"
    /\ error = ErrTraining
    /\ model.isReady

\* C11: every startTraining invocation that set trainingStatus to 'training'
\* eventually returns, setting 'completed' or 'error', whatever sample
\* removals and class edits interleave with it.
C11_RunTerminates ==
    \A r \in RunIds : (runs[r].pc \in ActivePcs \cup {"hung"}) ~> (runs[r].pc = "none")

\* C12: the batch a run builds holds no sample that removeSample had removed
\* before the batch tensors were built.
C12_BatchExcludesRemoved ==
    [][\A r \in RunIds :
          (runs[r].pc = "loading" /\ runs'[r].pc = "fitting")
              => Range(runs[r].samples) \cap revoked = {}]_vars

\* C13: a makePrediction call made while model.isReady is false or no head
\* exists throws the model-not-ready error and starts no prediction; a
\* prediction is started only in a state where a head exists and
\* model.isReady is true, and a list is returned only by a started prediction.
C13_NotReadyRejected ==
    [][/\ (MakePredictionCall /\ (model.model = Null \/ ~model.isReady))
            => /\ predicted' = Thrown(ErrPredNotReady)
               /\ predicting' = predicting
       /\ Len(predicting') > Len(predicting)
            => (model.model # Null /\ model.isReady)
       /\ predicted'.status = "ok"
            => Len(predicting') < Len(predicting)]_vars

C13_Witness ==
    /\ predicted = Thrown(ErrPredNotReady)
    /\ model.model # Null
    /\ ~model.isReady
    /\ trainingStatus = "training"

\* C14: the list a successful makePrediction returns has one entry per class
\* of the class list it was called with: as many entries as classes, every
\* class index 0..N-1 exactly once, each with the name of the class at that
\* index.
C14_FullListOverClasses ==
    predicted.status = "ok" =>
        /\ Len(predicted.list) = Len(predicted.names)
        /\ {predicted.list[i].classIndex : i \in DOMAIN predicted.list}
              = 0..(Len(predicted.names) - 1)
        /\ \A i \in DOMAIN predicted.list :
              predicted.list[i].className = predicted.names[predicted.list[i].classIndex + 1]

\* C15: the returned list is sorted non-increasing by confidence, and of two
\* entries with equal confidence the one with the smaller class index comes
\* first.
C15_SortedTiesByIndex ==
    predicted.status = "ok" =>
        \A i, j \in DOMAIN predicted.list :
            i < j =>
                \/ predicted.list[i].confidence > predicted.list[j].confidence
                \/ /\ predicted.list[i].confidence = predicted.list[j].confidence
                   /\ predicted.list[i].classIndex < predicted.list[j].classIndex

C15_Witness ==
    /\ predicted.status = "ok"
    /\ Len(predicted.list) = 3
    /\ predicted.list[1].classIndex = 0
    /\ predicted.list[2].classIndex = 2
    /\ predicted.list[1].confidence = predicted.list[2].confidence

\* C16: the confidences of a returned list are each between 0 and 100 and
\* sum to 100 within 0.5 (confidences are in units of 1 / ProbUnits percent).
C16_ConfidencesSumTo100 ==
    predicted.status = "ok" =>
        LET total == Sum([i \in DOMAIN predicted.list |-> predicted.list[i].confidence])
        IN  /\ \A i \in DOMAIN predicted.list :
                  /\ predicted.list[i].confidence >= 0
                  /\ predicted.list[i].confidence <= 100 * ProbUnits
            /\ 2 * (total - 100 * ProbUnits) <= ProbUnits
            /\ 2 * (100 * ProbUnits - total) <= ProbUnits

C16_Witness ==
    /\ predicted.status = "ok"
    /\ Len(predicted.list) = 2
    /\ predicted.list[1].confidence = 100 * ProbUnits
    /\ predicted.list[1].classIndex = 1

\* C17: a makePrediction call, succeeding or failing, and its completion
\* leave model, trainingStatus, trainingHistory and the class list with its
\* samples unchanged.
C17_PredictionMutatesNothing ==
    [][(MakePredictionCall \/ \E i \in 1..MaxPredictions : PredictionData(i))
          => UNCHANGED <<model, trainingStatus, trainingHistory, classes>>]_vars

C17_Witness ==
    /\ predicted = Thrown(ErrPredFailed)
    /\ predicting = <<>>
    /\ model.isReady
    /\ AllSamples(classes) # <<>>

\* C18: no tensor allocated by a run outlives the run: when a run has
\* returned (completed or failed) none of its tensors is still allocated.
C18_RunTensorsReleased ==
    \A t \in tensors : t[1] # 0

\* C20: a sample that is no longer in the class list has had its object url
\* released.
C20_RemovedSamplesReleased ==
    \A s \in 1..nextSample : s \notin Range(AllSamples(classes)) => s \in revoked

\* C21: after every edit of the class list the ids of its classes are
\* pairwise distinct, and an edit that keeps the number of classes keeps the
\* id at every position.
C21_ClassIdsUniqueImmutable ==
    [][/\ \A i, j \in DOMAIN classes' : i # j => classes'[i].id # classes'[j].id
       /\ Len(classes') = Len(classes)
            => \A i \in DOMAIN classes : classes'[i].id = classes[i].id]_vars

\* C22: exportModel calls save() only in a state where a head exists and
\* model.isReady is true; a call made in any other state saves nothing and
\* reports the no-trained-model error.
C22_ExportOnlyWhenReady ==
    [][/\ (ExportModelCall /\ (model.model = Null \/ ~model.isReady))
            => /\ error' = ErrNoExport
               /\ exporting' = exporting
               /\ exported' = ExportRefused
       /\ Len(exporting') > Len(exporting)
            => /\ model.model # Null
               /\ model.isReady
               /\ exporting' = Append(exporting, model.model)
       /\ exported'.status = "saved"
            => /\ Len(exporting') < Len(exporting)
               /\ exported'.head \in Range(exporting)]_vars

C22_Witness ==
    /\ exported = ExportRefused
    /\ error = ErrNoExport
    /\ model.model # Null
    /\ ~model.isReady
    /\ trainingStatus = "completed"

\* C23: whatever backends fail, the session eventually holds a base model,
\* and no initialization or base-model error is ever shown.
C23_BaseModelEventuallyLoaded ==
    /\ <>(model.baseModel # Null)
    /\ [](error \notin {ErrInit, ErrLoadBase})

\* C24: in the render that shows a returned prediction list, every
\* prediction whose class index is in the class list is drawn in the color
\* of the class at that index.
C24_PredictionColorOfClass ==
    predicted.status = "ok" =>
        \A i \in DOMAIN predicted.list :
            predicted.list[i].classIndex + 1 \in DOMAIN classes =>
                GetClassColor(classes, predicted.list[i])
                    = classes[predicted.list[i].classIndex + 1].color

\* C25: a startTraining call made in trainingStatus 'error' with a head, at
\* least 2 classes and no empty class is accepted like any other: the status
\* becomes 'training', the error is cleared and a run begins on the current
\* head at epoch 0.  (The witness is a run completed after a failure.)
C25_RetryAfterError ==
    [][(/\ trainingStatus = "error"
        /\ StartTrainingCall
        /\ model.model # Null
        /\ Len(classes) >= 2
        /\ EmptyNames(classes) = <<>>)
          => /\ trainingStatus' = "training"
             /\ error' = NoError
             /\ \E r \in RunIds :
                   /\ runs[r].pc = "none"
                   /\ runs'[r].pc = "loading"
                   /\ runs'[r].head = model.model
                   /\ runs'[r].samples = AllSamples(classes)
                   /\ runs'[r].epoch = 0]_vars

C25_Witness ==
    /\ trainingStatus = "completed"
    /\ model.isReady
    /\ heads[model.model].trained
    /\ <<0, "xs">> \in tensors
    /\ \A r \in RunIds : runs[r].pc = "none"

\* C26: trainingStatus becomes 'completed' or 'error' only in a step taken
\* in 'training' (so a terminal status is never followed by another terminal
\* status without a run entering 'training' in between), becomes 'training'
\* only by a startTraining call, and a rejected startTraining call leaves it
\* unchanged.
C26_StatusStateMachine ==
    [][/\ (trainingStatus' # trainingStatus /\ trainingStatus' \in {"completed", "error"})
            => trainingStatus = "training"
       /\ (trainingStatus' # trainingStatus /\ trainingStatus' = "training")
            => StartTrainingCall
       /\ trainingStatus # "idle" => trainingStatus' # "idle"
       /\ (StartTrainingCall /\ runs' = runs) => trainingStatus' = trainingStatus]_vars

\* a startTraining invocation begins in slot r
RunBegins(r) == runs[r].pc = "none" /\ runs'[r].pc # "none"

\* C27: the head a run begins to train has as many output units as the class
\* list passed to the run has classes.
C27_HeadBuiltForClassCount ==
    [][\A r \in RunIds :
          RunBegins(r) => heads[runs'[r].head].units = runs'[r].numClasses]_vars

\* the number of entries of the sequence s that equal x
Count(s, x) == Cardinality({i \in DOMAIN s : s[i] = x})

\* C28: the batch of a run has one label per sample of the class list passed
\* to startTraining, samples and labels in class-list order; the label of
\* the entry that sample j of the class at position i (from 0) contributes is
\* i, the position of that class in the list, so label i occurs as often as
\* class i has samples; the one-hot width is the number
\* of classes; and the batch materialized when the images are loaded is the
\* one the run began with.
C28_LabelsArePositions ==
    [][\A r \in RunIds :
          /\ RunBegins(r) =>
                /\ Len(runs'[r].labels) = Len(runs'[r].samples)
                /\ runs'[r].samples = AllSamples(classes)
                /\ \A i \in DOMAIN classes :
                      /\ Count(runs'[r].labels, i - 1) = Len(classes[i].samples)
                      /\ \A j \in DOMAIN classes[i].samples :
                            LET k == j + Sum([h \in 1..(i - 1) |->
                                                Len(classes[h].samples)])
                            IN  /\ runs'[r].samples[k] = classes[i].samples[j]
                                /\ runs'[r].labels[k] = i - 1
                /\ \A k \in DOMAIN runs'[r].labels :
                      runs'[r].labels[k] \in 0..(Len(classes) - 1)
                /\ runs'[r].numClasses = Len(classes)
          /\ (runs[r].pc = "loading" /\ runs'[r].pc \in ActivePcs) =>
                /\ runs'[r].samples = runs[r].samples
                /\ runs'[r].labels = runs[r].labels
                /\ runs'[r].numClasses = runs[r].numClasses]_vars

C28_Witness ==
    \E r \in RunIds :
        /\ runs[r].pc = "fitting"
        /\ runs[r].labels = <<0, 1>>
        /\ runs[r].samples = AllSamples(classes)
        /\ Len(classes) = 2
        /\ classes[1].id = 2

\* C29: every progress record a run emits has 1 <= epoch <= totalEpochs,
\* totalEpochs the epochs argument of the run and samplesProcessed the number
\* of samples, over all classes, of the class list the run was started with.
C29_ProgressRecord ==
    [][\A r \in RunIds :
          /\ EpochEnd(r) =>
                /\ trainingProgress'.epoch \in 1..trainingProgress'.totalEpochs
                /\ trainingProgress'.totalEpochs = runs[r].epochs
                /\ trainingProgress'.samplesProcessed = Len(runs[r].samples)
          /\ RunBegins(r) =>
                /\ runs'[r].epochs \in 1..MaxEpochs
                /\ Len(runs'[r].samples)
                      = Sum([i \in DOMAIN classes |-> Len(classes[i].samples)])
          /\ (runs[r].pc \in ActivePcs /\ runs'[r].pc \in ActivePcs) =>
                /\ runs'[r].epochs = runs[r].epochs
                /\ runs'[r].samples = runs[r].samples]_vars

C29_Witness ==
    /\ trainingProgress.epoch = MaxEpochs
    /\ trainingProgress.totalEpochs = MaxEpochs
    /\ trainingProgress.samplesProcessed = 3
    /\ trainingStatus = "training"

C31_SameCountKeepsModel ==
    [][(classes' # classes /\ Len(classes') = Len(classes))
          => (model'.model = model.model /\ model'.isReady = model.isReady)]_vars

\* the samples of a class list, each with the id of the class that owns it
SamplesIn(cls) ==
    UNION {{<<cls[i].id, x>> : x \in Range(cls[i].samples)} : i \in DOMAIN cls}

\* C32: the completion of a sample addition loses no sample: every sample of
\* the class list is still in its class afterwards, and the new sample is in
\* the class it was supplied to when that class is still in the list.
C32_NoSampleAdditionLost ==
    [][\A i \in 1..MaxUploads :
          SampleLoaded(i) =>
             /\ SamplesIn(classes) \subseteq SamplesIn(classes')
             /\ uploading[i].classId \in ClassIdsOf(classes)
                   => <<uploading[i].classId, nextSample'>> \in SamplesIn(classes')]_vars

\* C33: the completion of a sample addition brings nothing back: the classes
\* of the list afterwards are classes of the list before, under the names
\* they have there, and their samples are the samples they have there and
\* the new one.
C33_EditsNotUndone ==
    [][\A i \in 1..MaxUploads :
          SampleLoaded(i) =>
             /\ \A j \in DOMAIN classes' : \E k \in DOMAIN classes :
                    /\ classes[k].id = classes'[j].id
                    /\ classes[k].name = classes'[j].name
             /\ SamplesIn(classes') \subseteq
                    SamplesIn(classes) \cup {<<uploading[i].classId, nextSample'>>}]_vars

\* C34: createModel called with fewer than 2 classes or without a base
\* model sets the error 'Need at least 2 classes and a loaded base model' and
\* leaves model.model and model.isReady as they were; a createModel call that
\* succeeds installs a head that no run holds and that is not the head
\* before, untrained and with one output per class, and sets model.isReady
\* to false.
C34_CreateModelContract ==
    [][\A n \in 0..MaxClasses, ok \in BOOLEAN :
          CreateModelCall(n, ok) =>
             /\ (n < 2 \/ model.baseModel = Null) =>
                    /\ error' = ErrNeedClasses
                    /\ model'.model = model.model
                    /\ model'.isReady = model.isReady
             /\ (n >= 2 /\ model.baseModel # Null /\ ok) =>
                    /\ model'.model \in HeadIds \ ({model.model} \cup HeadsOfRuns(runs))
                    /\ heads'[model'.model] =
                          [units |-> n, trained |-> FALSE, isTraining |-> FALSE]
                    /\ ~model'.isReady
                    /\ error' = NoError]_vars

\* a createModel call was refused in the last step and the trained model is
\* still ready
C34_Witness ==
    /\ error = ErrNeedClasses
    /\ model.isReady
    /\ heads[model.model].trained

\* C35: once model.baseModel is set no step changes it, whatever the step
\* (createModel, a training run, a prediction, a class-list edit), and
\* loadBaseModel is started at most once: only from the position before the
\* first load, to which no step returns.
C35_BaseModelLoadedOnce ==
    [][/\ model.baseModel # Null => model'.baseModel = model.baseModel
       /\ (initPc' = "loading" /\ initPc # "loading") => initPc = "init"
       /\ initPc # "init" => initPc' # "init"]_vars

\* a prediction was returned by a model trained on a head that createModel
\* built, with the base model in place
C35_Witness ==
    /\ model.baseModel # Null
    /\ initPc = "loaded"
    /\ model.isReady
    /\ predicted.status = "ok"

\* C36: createTransferModel ends the feature extractor at the first layer,
\* in layer order, whose name contains 'global_average_pooling', 'flatten'
\* or 'dense'; at the second-to-last layer when no name matches; and uses the
\* whole base model when building the cut model fails, which is also the
\* case of a base model without a match and without a second-to-last layer.
C36_CutAtFirstMatch ==
    [][\A fails \in BOOLEAN :
          CreateTransferModel(fails) =>
             LET ls == transfer.layers
                 M  == {i \in DOMAIN ls : \E p \in Patterns : <<ls[i], p>> \in NameIncludes}
             IN  /\ (M # {} /\ ~fails) =>
                        (transfer'.cut \in M /\ \A i \in M : transfer'.cut <= i)
                 /\ (M = {} /\ ~fails /\ Len(ls) >= 2) => transfer'.cut = Len(ls) - 1
                 /\ (fails \/ (M = {} /\ Len(ls) < 2)) => transfer'.cut = FullModel]_vars

\* the cut at the second of three layers, the first of two that match
C36_Witness ==
    /\ transfer.layers = <<"reshape_2", "condensed", "flatten_1">>
    /\ transfer.cut = 2

\* C37: the page shows the 'Export Successful' notification only for an
\* exportModel call whose save() resolved, not for a call that found the
\* model not ready nor for one whose save() rejected.
C37_SuccessToastOnlyWhenSaved ==
    ExportToast(exported) = "Export Successful" => exported.status = "saved"

\* C38: when the last call made to the webcam hook was stopWebcam (or its
\* unmount) and no startWebcam invocation is still waiting for the camera,
\* no stream the hook obtained has a live track and isActive is false.
C38_NoStreamAfterStop ==
    (webcam.stopped /\ webcam.requesting = 0)
        => (webcam.live = {} /\ ~webcam.isActive)

====
